---- MODULE Spec2Model ----
(***************************************************************************)
(* Model of zzzhr1990/simpleupdater.                                       *)
(*                                                                         *)
(*   graceful.go   simpleupdaterListener / simpleupdaterConn: the graceful *)
(*                 listener, its connection watchers and release/Close.    *)
(*   sys_posix.go  validate, sanityCheck, runErr and Run; move.            *)
(*                                                                         *)
(* Specifications: Spec (the listener, release called once), SpecFair (the *)
(* same under fair scheduling), SpecTwice (release called twice), SpecRun  *)
(* (one call of Run) and SpecMove (one call of move).                      *)
(*                                                                         *)
(* Every goroutine is a process with a program counter; a step is one      *)
(* synchronisation operation (channel send/receive, WaitGroup Add/Done/    *)
(* Wait, socket accept/close) together with the local code around it.      *)
(***************************************************************************)
EXTENDS Integers, Sequences, FiniteSets, TLC

(***************************************************************************)
(* Bounds of the model.                                                    *)
(***************************************************************************)
MaxConns == 2

Conns == 1..MaxConns
\* release is called once per listener by the worker; the second entry is
\* for a caller that calls it again.
Releases == {1, 2}

\* The errors of the model. "nil" is Go's nil error.
Nil == "nil"
ErrClose == "close failed"
ErrNetClosing == "use of closed network connection"
ErrAccept == "accept failed"

VARIABLES
    \* ---- simpleupdaterListener (graceful.go:22-27) ----
    listenerOpen,   \* the embedded net.Listener still accepts
    closeError,     \* l.closeError
    closeByForce,   \* TRUE once the channel l.closeByForce is closed
    wg,             \* counter of l.wg
    panicked,       \* "none", or the runtime panic that ended the process
    \* ---- the goroutine that calls l.Accept() ----
    acceptPc,       \* "idle" | "accepting" | "add"
    acceptConn,     \* the connection Accept is about to return (0: none)
    acceptRet,      \* what the last Accept returned: "none" | "conn" | an error
    \* ---- simpleupdaterConn (graceful.go:88-92), one per accepted socket ----
    connState,      \* the wrapped net.Conn: "unused" | "open" | "closed"
    returned,       \* Accept has returned the connection to its owner
    watcherPc,      \* connection watcher: "none" | "select" | "exit", or
                    \*   "send": inside its own uconn.Close(), at o.closed <- true
    ownerPc,        \* the owner's call of Close: "idle" (not in a call) or
                    \*   "send": at o.closed <- true
    \* ---- release (graceful.go:55-72), one entry per call ----
    releases,       \* number of calls of release so far
    releasePc,      \* the caller of release: "idle" | "store"
    releaseErr,     \* what l.Listener.Close() returned, before it is stored
    timerFired,     \* time.After(timeout) of call r has delivered
    waiterPc,       \* "none" | "wait" | "send" | "exit"
    selectPc,       \* "none" | "select" | "forced" | "drained"
    \* ---- the goroutine that calls l.Close() ----
    lcPc,           \* "idle" | "wait" | "ret"
    lcRet,          \* the value Close returned
    \* ---- history of the run (read by the properties only) ----
    hist,
    \* ---- the process that calls Run (sys_posix.go:166-231) ----
    cfg,            \* the Config c that Run holds and runErr(&c) works on
    env,            \* the environment variables the process was started with
    runPc,          \* "start" | "validate" | "sanity" | "role" | "run" |
                    \*   "handle" | "exited" | "returned" | "panicked"
    runErrRet,      \* what runErr returned ("none" while it runs)
    currentProcess, \* the package variable: "nil" | "master" | "slave"
    stdout,         \* what was written to os.Stdout
    exitCode,       \* the exit status of the process (-1 while it runs)
    programCalls,   \* the State of every call of c.Program, in order
    logged,         \* number of lines Run logged
    rhist,          \* history: the caller's Config and where the error arose
    \* ---- one call of move(dst, src) (sys_posix.go:25-52) ----
    dstFile,        \* content of the file at dst ("absent": no file)
    srcFile,        \* content of the file at src
    movePc,         \* "idle" | "rename" | "mv" | "sync" | "done"
    moveRet,        \* what move returned ("none" while it runs)
    mhist           \* history: dst before the call and what each step did

lvars == <<listenerOpen, closeError, closeByForce, wg, panicked, acceptPc,
           acceptConn, acceptRet, connState, returned, watcherPc, ownerPc,
           releases, releasePc, releaseErr, timerFired, waiterPc, selectPc,
           lcPc, lcRet, hist>>

rvars == <<cfg, env, runPc, runErrRet, currentProcess, stdout, exitCode,
           programCalls, logged, rhist>>

mvars == <<dstFile, srcFile, movePc, moveRet, mhist>>

vars == <<lvars, rvars, mvars>>

(***************************************************************************)
(* hist records, per connection c:                                         *)
(*   closedBy[c]   who closed the socket: "none" | "owner" | "force"       *)
(*   dones[c]      number of wg.Done() executed for c                      *)
(*   forced[c]     the watcher's Close ran wg.Done() for c                 *)
(*   signals[c]    number of completed sends on c's closed channel         *)
(*   calls[c]      the owner's calls of Close: 0, 1, or 2 for two or more  *)
(* and for the listener:                                                   *)
(*   atRelease     connections open at the first release                   *)
(*   cleanRelease  at the first release no Accept was between AcceptTCP    *)
(*                 and wg.Add: every open connection had been returned     *)
(*   deadline      some timer has fired                                    *)
(*   atDeadline    connections open when the first timer fired             *)
(*   lateClose     an owner closed a socket after the first timer fired    *)
(*   forceRaised   number of times close(l.closeByForce) ran               *)
(*   acceptAfterRelease  the current/last Accept was called after release  *)
(*   captured      what l.Listener.Close() returned in the last release    *)
(***************************************************************************)
InitHist ==
    [closedBy   |-> [c \in Conns |-> "none"],
     dones      |-> [c \in Conns |-> 0],
     forced     |-> [c \in Conns |-> FALSE],
     signals    |-> [c \in Conns |-> 0],
     calls      |-> [c \in Conns |-> 0],
     atRelease  |-> {},
     cleanRelease |-> FALSE,
     deadline   |-> FALSE,
     atDeadline |-> {},
     lateClose  |-> FALSE,
     forceRaised |-> 0,
     acceptAfterRelease |-> FALSE,
     captured   |-> Nil]

\* newsimpleupdaterListener
InitListener ==
    /\ listenerOpen = TRUE
    /\ closeError = Nil
    /\ closeByForce = FALSE
    /\ wg = 0
    /\ panicked = "none"
    /\ acceptPc = "idle"
    /\ acceptConn = 0
    /\ acceptRet = "none"
    /\ connState = [c \in Conns |-> "unused"]
    /\ returned = [c \in Conns |-> FALSE]
    /\ watcherPc = [c \in Conns |-> "none"]
    /\ ownerPc = [c \in Conns |-> "idle"]
    /\ releases = 0
    /\ releasePc = "idle"
    /\ releaseErr = Nil
    /\ timerFired = [r \in Releases |-> FALSE]
    /\ waiterPc = [r \in Releases |-> "none"]
    /\ selectPc = [r \in Releases |-> "none"]
    /\ lcPc = "idle"
    /\ lcRet = "none"
    /\ hist = InitHist

\* A runtime panic ends the whole process: no goroutine takes another step.
Alive == panicked = "none"

OpenConns == {c \in Conns : connState[c] = "open"}

(***************************************************************************)
(* simpleupdaterListener.Accept (graceful.go:29-52)                        *)
(***************************************************************************)
\* The accept loop calls l.Accept(); it blocks in AcceptTCP.
AcceptCall ==
    /\ Alive
    /\ acceptPc = "idle"
    /\ acceptPc' = "accepting"
    /\ acceptRet' = "none"
    /\ hist' = [hist EXCEPT !.acceptAfterRelease = (releases > 0)]
    /\ UNCHANGED <<listenerOpen, closeError, closeByForce, wg, panicked,
                   acceptConn, connState, returned, watcherPc, ownerPc,
                   releases, timerFired, waiterPc, selectPc, lcPc, lcRet,
                   releasePc, releaseErr, rvars, mvars>>

\* Mutant: Accept swallows the error of AcceptTCP.
AcceptTCPError_Swallowed == Nil

\* AcceptTCP on a closed listener fails; on an open one it may fail as well.
AcceptTCPError == IF listenerOpen THEN ErrAccept ELSE ErrNetClosing

\* graceful.go:30-33: err != nil, Accept returns (nil, err).
AcceptFail ==
    /\ Alive
    /\ acceptPc = "accepting"
    /\ acceptPc' = "idle"
    /\ acceptRet' = AcceptTCPError
    /\ UNCHANGED <<listenerOpen, closeError, closeByForce, wg, panicked,
                   acceptConn, connState, returned, watcherPc, ownerPc,
                   releases, timerFired, waiterPc, selectPc, lcPc, lcRet, hist,
                   releasePc, releaseErr, rvars, mvars>>

\* Mutant: release leaves the listener accepting.
AcceptTCPReady_StillOpen == TRUE

\* AcceptTCP can deliver a socket only while the listener is open.
AcceptTCPReady == listenerOpen

\* The next unused connection identity.
NewConn == CHOOSE c \in Conns : connState[c] = "unused" /\ \A d \in Conns : connState[d] = "unused" => c <= d

\* graceful.go:30-49: AcceptTCP delivers a socket, uconn is built and the
\* connection watcher is started (it blocks in its select).
AcceptConnect ==
    /\ Alive
    /\ acceptPc = "accepting"
    /\ AcceptTCPReady
    /\ \E c \in Conns : connState[c] = "unused"
    /\ LET c == NewConn IN
        /\ connState' = [connState EXCEPT ![c] = "open"]
        /\ watcherPc' = [watcherPc EXCEPT ![c] = "select"]
        /\ acceptConn' = c
    /\ acceptPc' = "add"
    /\ UNCHANGED <<listenerOpen, closeError, closeByForce, wg, panicked,
                   acceptRet, returned, ownerPc, releases, timerFired,
                   waiterPc, selectPc, lcPc, lcRet, hist,
                   releasePc, releaseErr, rvars, mvars>>

\* graceful.go:50-51: l.wg.Add(1); return uconn, nil.
AcceptAdd ==
    /\ Alive
    /\ acceptPc = "add"
    /\ wg' = wg + 1
    /\ returned' = [returned EXCEPT ![acceptConn] = TRUE]
    /\ acceptPc' = "idle"
    /\ acceptRet' = "conn"
    /\ acceptConn' = 0
    /\ UNCHANGED <<listenerOpen, closeError, closeByForce, panicked,
                   connState, watcherPc, ownerPc, releases, timerFired,
                   waiterPc, selectPc, lcPc, lcRet, hist,
                   releasePc, releaseErr, rvars, mvars>>

(***************************************************************************)
(* simpleupdaterConn.Close (graceful.go:94-101), run by caller w.          *)
(* o.Conn.Close() and o.wg.Done() are one step: nothing another goroutine  *)
(* does between them changes what either does, except l.wg.Add, and both   *)
(* orders of Add and this step are steps of the model.                     *)
(***************************************************************************)
\* Mutant: closing a closed socket reports no error.
ConnCloseErr_AlwaysNil(c) == Nil

\* o.Conn.Close(): the first close of the socket succeeds, a later one fails.
ConnCloseErr(c) == IF connState[c] = "open" THEN Nil ELSE ErrNetClosing

\* Mutant: wg.Done() runs whatever o.Conn.Close() returned.
CloseAndDone_Unconditional(c, w) ==
    /\ connState' = [connState EXCEPT ![c] = IF @ = "open" THEN "closed" ELSE @]
    /\ wg' = wg - 1
    /\ panicked' = IF wg - 1 < 0
                   THEN "sync: negative WaitGroup counter" ELSE panicked
    /\ hist' = [hist EXCEPT
           !.closedBy[c] = IF connState[c] = "open" THEN w ELSE @,
           !.dones[c] = @ + 1,
           !.forced[c] = @ \/ (w = "force"),
           !.lateClose = @ \/ (w = "owner" /\ hist.deadline),
           !.calls[c] = IF w = "force" THEN @ ELSE IF @ = 0 THEN 1 ELSE 2]

\* graceful.go:95-97: err := o.Conn.Close(); if err == nil { o.wg.Done() ...
\* sync.WaitGroup panics when its counter goes negative.
CloseAndDone(c, w) ==
    LET err == ConnCloseErr(c) IN
    /\ connState' = [connState EXCEPT ![c] = IF @ = "open" THEN "closed" ELSE @]
    /\ wg' = IF err = Nil THEN wg - 1 ELSE wg
    /\ panicked' = IF err = Nil /\ wg - 1 < 0
                   THEN "sync: negative WaitGroup counter" ELSE panicked
    /\ hist' = [hist EXCEPT
           !.closedBy[c] = IF connState[c] = "open" THEN w ELSE @,
           !.dones[c] = IF err = Nil THEN @ + 1 ELSE @,
           !.forced[c] = @ \/ (err = Nil /\ w = "force"),
           !.lateClose = @ \/ (err = Nil /\ w = "owner" /\ hist.deadline),
           !.calls[c] = IF w = "force" THEN @ ELSE IF @ = 0 THEN 1 ELSE 2]

\* The owner of a connection calls Close on it, any number of times, one call
\* after the other. With err == nil the call goes on to o.closed <- true,
\* otherwise it returns err.
OwnerClose(c) ==
    /\ Alive
    /\ returned[c]
    /\ ownerPc[c] = "idle"
    /\ CloseAndDone(c, "owner")
    /\ ownerPc' = [ownerPc EXCEPT ![c] = IF ConnCloseErr(c) = Nil THEN "send" ELSE "idle"]
    /\ UNCHANGED <<listenerOpen, closeError, closeByForce, acceptPc,
                   acceptConn, acceptRet, returned, watcherPc, releases,
                   timerFired, waiterPc, selectPc, lcPc, lcRet,
                   releasePc, releaseErr, rvars, mvars>>

\* <-l.closeByForce is ready once the channel is closed.
ForceReady == closeByForce

\* graceful.go:44-45: the watcher's select takes <-l.closeByForce and calls
\* uconn.Close(). With err == nil that call goes on to o.closed <- true, where
\* it stays: the only receiver of o.closed is this watcher's select. With an
\* error (the owner closed first) the call returns and the watcher ends.
WatcherForce(c) ==
    /\ Alive
    /\ watcherPc[c] = "select"
    /\ ForceReady
    /\ CloseAndDone(c, "force")
    /\ watcherPc' = [watcherPc EXCEPT ![c] = IF ConnCloseErr(c) = Nil THEN "send" ELSE "exit"]
    /\ UNCHANGED <<listenerOpen, closeError, closeByForce, acceptPc,
                   acceptConn, acceptRet, returned, ownerPc, releases,
                   timerFired, waiterPc, selectPc, lcPc, lcRet,
                   releasePc, releaseErr, rvars, mvars>>

\* graceful.go:98 with graceful.go:46: o.closed is unbuffered, so the owner's
\* send o.closed <- true completes only together with the watcher's receive
\* <-uconn.closed, and the watcher receives only in its select. Then Close
\* returns nil and the watcher ends.
SendClosed(c) ==
    /\ Alive
    /\ ownerPc[c] = "send"
    /\ watcherPc[c] = "select"
    /\ watcherPc' = [watcherPc EXCEPT ![c] = "exit"]
    /\ ownerPc' = [ownerPc EXCEPT ![c] = "idle"]
    /\ hist' = [hist EXCEPT !.signals[c] = @ + 1]
    /\ UNCHANGED <<listenerOpen, closeError, closeByForce, wg, panicked,
                   acceptPc, acceptConn, acceptRet, connState, returned,
                   releases, timerFired, waiterPc, selectPc, lcPc, lcRet,
                   releasePc, releaseErr, rvars, mvars>>

(***************************************************************************)
(* simpleupdaterListener.release (graceful.go:55-72)                       *)
(***************************************************************************)
\* What l.Listener.Close() can return: closing an open listener succeeds or
\* fails in the operating system; closing a closed one fails.
ListenerCloseResults == IF listenerOpen THEN {Nil, ErrClose} ELSE {ErrNetClosing}

\* graceful.go:57, right-hand side: some goroutine calls release(timeout),
\* call number r, and l.Listener.Close() runs: the listener stops accepting.
\* The result is not yet stored.
ReleaseStop(r) ==
    /\ Alive
    /\ releasePc = "idle"
    /\ r = releases + 1
    /\ \E e \in ListenerCloseResults :
          /\ releaseErr' = e
          /\ hist' = IF releases = 0
                     THEN [hist EXCEPT
                              !.captured = e,
                              !.atRelease = OpenConns,
                              !.cleanRelease = (acceptPc # "add")]
                     ELSE [hist EXCEPT !.captured = e]
    /\ listenerOpen' = FALSE
    /\ releases' = r
    /\ releasePc' = "store"
    /\ UNCHANGED <<closeError, closeByForce, wg, panicked, acceptPc,
                   acceptConn, acceptRet, connState, returned, watcherPc,
                   ownerPc, timerFired, waiterPc, selectPc, lcPc, lcRet, rvars, mvars>>

\* graceful.go:57-72: the result is stored in l.closeError, the drain-waiter
\* and the timeout selector are started, and release returns without blocking.
ReleaseStart(r) ==
    /\ Alive
    /\ releasePc = "store"
    /\ r = releases
    /\ closeError' = releaseErr
    /\ releasePc' = "idle"
    /\ waiterPc' = [waiterPc EXCEPT ![r] = "wait"]
    /\ selectPc' = [selectPc EXCEPT ![r] = "select"]
    /\ UNCHANGED <<listenerOpen, closeByForce, wg, panicked, acceptPc,
                   acceptConn, acceptRet, connState, returned, watcherPc,
                   ownerPc, releases, releaseErr, timerFired, lcPc, lcRet,
                   hist, rvars, mvars>>

\* graceful.go:66: the channel of time.After(timeout) becomes ready. The
\* timeout is any duration, so this can happen at any moment after release.
TimerFire(r) ==
    /\ Alive
    /\ selectPc[r] = "select"
    /\ ~timerFired[r]
    /\ timerFired' = [timerFired EXCEPT ![r] = TRUE]
    /\ hist' = IF hist.deadline THEN hist
               ELSE [hist EXCEPT !.deadline = TRUE, !.atDeadline = OpenConns]
    /\ UNCHANGED <<listenerOpen, closeError, closeByForce, wg, panicked,
                   acceptPc, acceptConn, acceptRet, connState, returned,
                   watcherPc, ownerPc, releases, waiterPc, selectPc, lcPc,
                   lcRet,
                   releasePc, releaseErr, rvars, mvars>>

\* Mutant: Wait does not wait.
WgWaitReady_NoWait == TRUE

\* sync.WaitGroup.Wait returns when the counter is zero.
WgWaitReady == wg = 0

\* graceful.go:61: the drain-waiter's l.wg.Wait() returns.
WaiterWake(r) ==
    /\ Alive
    /\ waiterPc[r] = "wait"
    /\ WgWaitReady
    /\ waiterPc' = [waiterPc EXCEPT ![r] = "send"]
    /\ UNCHANGED <<listenerOpen, closeError, closeByForce, wg, panicked,
                   acceptPc, acceptConn, acceptRet, connState, returned,
                   watcherPc, ownerPc, releases, timerFired, selectPc, lcPc,
                   lcRet, hist,
                   releasePc, releaseErr, rvars, mvars>>

\* graceful.go:62 with graceful.go:68: waited is unbuffered; the waiter's send
\* and the selector's receive happen together. Nothing is force-closed.
SelectWaited(r) ==
    /\ Alive
    /\ waiterPc[r] = "send"
    /\ selectPc[r] = "select"
    /\ waiterPc' = [waiterPc EXCEPT ![r] = "exit"]
    /\ selectPc' = [selectPc EXCEPT ![r] = "drained"]
    /\ UNCHANGED <<listenerOpen, closeError, closeByForce, wg, panicked,
                   acceptPc, acceptConn, acceptRet, connState, returned,
                   watcherPc, ownerPc, releases, timerFired, lcPc, lcRet, hist,
                   releasePc, releaseErr, rvars, mvars>>

\* The selector may take the timeout case once the timer's channel is ready.
TimeoutReady(r) == timerFired[r]

\* graceful.go:66-67: the selector takes the timeout case and closes
\* l.closeByForce. Closing a closed channel panics.
SelectTimeout(r) ==
    /\ Alive
    /\ selectPc[r] = "select"
    /\ TimeoutReady(r)
    /\ selectPc' = [selectPc EXCEPT ![r] = "forced"]
    /\ closeByForce' = TRUE
    /\ panicked' = IF closeByForce THEN "close of closed channel" ELSE panicked
    /\ hist' = [hist EXCEPT !.forceRaised = @ + 1]
    /\ UNCHANGED <<listenerOpen, closeError, wg, acceptPc, acceptConn,
                   acceptRet, connState, returned, watcherPc, ownerPc,
                   releases, timerFired, waiterPc, lcPc, lcRet,
                   releasePc, releaseErr, rvars, mvars>>

(***************************************************************************)
(* simpleupdaterListener.Close (graceful.go:75-78)                         *)
(***************************************************************************)
\* Some goroutine calls l.Close(); it blocks in l.wg.Wait().
ListenerCloseCall ==
    /\ Alive
    /\ lcPc = "idle"
    /\ lcPc' = "wait"
    /\ UNCHANGED <<listenerOpen, closeError, closeByForce, wg, panicked,
                   acceptPc, acceptConn, acceptRet, connState, returned,
                   watcherPc, ownerPc, releases, timerFired, waiterPc,
                   selectPc, lcRet, hist,
                   releasePc, releaseErr, rvars, mvars>>

\* What Close returns.
ListenerCloseValue == closeError

\* l.wg.Wait() returns and Close returns l.closeError.
ListenerCloseReturn ==
    /\ Alive
    /\ lcPc = "wait"
    /\ WgWaitReady
    /\ lcPc' = "ret"
    /\ lcRet' = ListenerCloseValue
    /\ UNCHANGED <<listenerOpen, closeError, closeByForce, wg, panicked,
                   acceptPc, acceptConn, acceptRet, connState, returned,
                   watcherPc, ownerPc, releases, timerFired, waiterPc,
                   selectPc, hist,
                   releasePc, releaseErr, rvars, mvars>>

(***************************************************************************)
(* Config and validate (sys_posix.go:91-155). Durations are in seconds.     *)
(***************************************************************************)
SIGUSR2 == "SIGUSR2"
DefaultTerminateTimeout == 30
DefaultMinFetchInterval == 1

ErrProgramRequired == "simpleupdater.Config.Program required"
ErrBothAddresses == "simpleupdater.Config.Address and Addresses cant both be set"
ErrUnsupported == "os not supported"
ErrRun == "run failed"

\* The configurations a caller passes to Run.
Configs ==
    [Required : BOOLEAN,
     Program : {"nil", "fn"},
     Address : {"", "a1"},
     Addresses : {<<>>, <<"a1">>, <<"a2", "a3">>},
     RestartSignal : {"nil", "SIGHUP"},
     TerminateTimeout : {-1, 0, 5},
     MinFetchInterval : {-1, 0, 2},
     Debug : BOOLEAN,
     NoWarn : BOOLEAN]

\* The environments a process is started with (sys_posix.go:81-88).
Envs ==
    [envBinCheck : {"", "tok"},
     envBinCheckLegacy : {"", "old"},
     envIsSlave : {"", "0", "1"}]

\* sys_posix.go:134-140: the error validate returns (nil: none).
ValidateErr(c) ==
    IF c.Program = "nil" THEN ErrProgramRequired
    ELSE IF c.Address # "" /\ Len(c.Addresses) > 0 THEN ErrBothAddresses
    ELSE Nil

\* Mutant: the timeout default is filled only for a zero value.
ValidateFill_ZeroOnly(c) ==
    LET a == IF c.Address # ""
             THEN [c EXCEPT !.Addresses = <<c.Address>>]
             ELSE IF Len(c.Addresses) > 0
                  THEN [c EXCEPT !.Address = c.Addresses[1]]
                  ELSE c
    IN [a EXCEPT
          !.RestartSignal = IF @ = "nil" THEN SIGUSR2 ELSE @,
          !.TerminateTimeout = IF @ = 0 THEN DefaultTerminateTimeout ELSE @,
          !.MinFetchInterval = IF @ <= 0 THEN DefaultMinFetchInterval ELSE @]

\* sys_posix.go:137-153: what validate makes of a configuration it accepts.
ValidateFill(c) ==
    LET a == IF c.Address # ""
             THEN [c EXCEPT !.Addresses = <<c.Address>>]
             ELSE IF Len(c.Addresses) > 0
                  THEN [c EXCEPT !.Address = c.Addresses[1]]
                  ELSE c
    IN [a EXCEPT
          !.RestartSignal = IF @ = "nil" THEN SIGUSR2 ELSE @,
          !.TerminateTimeout = IF @ <= 0 THEN DefaultTerminateTimeout ELSE @,
          !.MinFetchInterval = IF @ <= 0 THEN DefaultMinFetchInterval ELSE @]

\* sys_posix.go:17: this build supports the operating system.
supported == TRUE

\* sys_posix.go:181-193: the token sanityCheck finds ("": none), the
\* variable envBinCheck first, then the legacy one.
SanityToken(e) ==
    IF e.envBinCheck # "" THEN e.envBinCheck
    ELSE IF e.envBinCheckLegacy # "" THEN e.envBinCheckLegacy
    ELSE ""

\* The contents a file can have; "absent": there is no file at the path,
\* "partial": a copy that was cut short.
Absent == "absent"
Partial == "partial"

\* Before move is called (and in the runs that do not install a binary).
MoveNotStarted ==
    /\ dstFile = Absent
    /\ srcFile = Absent
    /\ movePc = "idle"
    /\ moveRet = "none"
    /\ mhist = [dst0 |-> Absent, src0 |-> Absent, xdev |-> FALSE,
                rename |-> "none", mv |-> "none", sync |-> "none"]

\* Before Run is called (and in the runs of the listener alone).
RunNotStarted ==
    /\ cfg = [Required |-> FALSE, Program |-> "fn", Address |-> "",
              Addresses |-> <<>>, RestartSignal |-> "nil",
              TerminateTimeout |-> 0, MinFetchInterval |-> 0,
              Debug |-> FALSE, NoWarn |-> FALSE]
    /\ env = [envBinCheck |-> "", envBinCheckLegacy |-> "", envIsSlave |-> ""]
    /\ runPc = "start"
    /\ runErrRet = "none"
    /\ currentProcess = "nil"
    /\ stdout = <<>>
    /\ exitCode = -1
    /\ programCalls = <<>>
    /\ logged = 0
    /\ rhist = [cfg0 |-> cfg, validateRet |-> "none", errFrom |-> "none",
                sane |-> FALSE, roles |-> <<>>, ran |-> <<>>]

\* Run(c) is called with any configuration in any environment.
InitRun ==
    /\ InitListener
    /\ MoveNotStarted
    /\ cfg \in Configs
    /\ env \in Envs
    /\ runPc = "start"
    /\ runErrRet = "none"
    /\ currentProcess = "nil"
    /\ stdout = <<>>
    /\ exitCode = -1
    /\ programCalls = <<>>
    /\ logged = 0
    /\ rhist = [cfg0 |-> cfg, validateRet |-> "none", errFrom |-> "none",
                sane |-> FALSE, roles |-> <<>>, ran |-> <<>>]

(***************************************************************************)
(* The listener with its goroutines; release is called at most once.       *)
(***************************************************************************)
Init == InitListener /\ RunNotStarted /\ MoveNotStarted

Next ==
    \/ AcceptCall
    \/ AcceptFail
    \/ AcceptConnect
    \/ AcceptAdd
    \/ \E c \in Conns : OwnerClose(c)
    \/ \E c \in Conns : WatcherForce(c)
    \/ \E c \in Conns : SendClosed(c)
    \/ ReleaseStop(1)
    \/ ReleaseStart(1)
    \/ \E r \in Releases : TimerFire(r)
    \/ \E r \in Releases : WaiterWake(r)
    \/ \E r \in Releases : SelectWaited(r)
    \/ \E r \in Releases : SelectTimeout(r)
    \/ ListenerCloseCall
    \/ ListenerCloseReturn

Spec == Init /\ [][Next]_vars

\* The listener when release is called a second time.
NextTwice ==
    \/ Next
    \/ ReleaseStop(2)
    \/ ReleaseStart(2)

SpecTwice == Init /\ [][NextTwice]_vars

\* What the Go scheduler and the runtime guarantee: a goroutine that can run
\* does run, a timer that was started fires, a send and a receive that are
\* both waiting on a channel meet, and a select with a ready case takes one.
\* Nothing makes a caller call Accept, Close or release, or a client connect.
Fairness ==
    /\ WF_vars(AcceptAdd)
    /\ WF_vars(ReleaseStart(1))
    /\ WF_vars(ListenerCloseReturn)
    /\ \A c \in Conns : WF_vars(WatcherForce(c)) /\ WF_vars(SendClosed(c))
    /\ \A r \in Releases :
          /\ WF_vars(TimerFire(r))
          /\ WF_vars(WaiterWake(r))
          /\ WF_vars(SelectWaited(r))
          /\ WF_vars(SelectTimeout(r))

\* The listener under fair scheduling.
SpecFair == Spec /\ Fairness

(***************************************************************************)
(* Run and runErr (sys_posix.go:166-231)                                   *)
(***************************************************************************)
\* sys_posix.go:213-217: Run calls runErr(&c), which checks the platform.
RunErrStart ==
    /\ runPc = "start"
    /\ IF supported
       THEN /\ runPc' = "validate"
            /\ UNCHANGED <<runErrRet, rhist>>
       ELSE /\ runPc' = "handle"
            /\ runErrRet' = ErrUnsupported
            /\ rhist' = [rhist EXCEPT !.errFrom = "unsupported"]
    /\ UNCHANGED <<cfg, env, currentProcess, stdout, exitCode, programCalls,
                   logged, lvars, mvars>>

\* sys_posix.go:218-220: validate(c) fills c in, or runErr returns its error.
RunValidate ==
    /\ runPc = "validate"
    /\ LET err == ValidateErr(cfg) IN
       IF err = Nil
       THEN /\ cfg' = ValidateFill(cfg)
            /\ runPc' = "sanity"
            /\ rhist' = [rhist EXCEPT !.validateRet = Nil]
            /\ UNCHANGED runErrRet
       ELSE /\ runPc' = "handle"
            /\ runErrRet' = err
            /\ rhist' = [rhist EXCEPT !.validateRet = err, !.errFrom = "validate"]
            /\ UNCHANGED cfg
    /\ UNCHANGED <<env, currentProcess, stdout, exitCode, programCalls,
                   logged, lvars, mvars>>

\* sys_posix.go:221-223 with sanityCheck (181-193): when a token is set it is
\* written to standard output and runErr returns nil.
RunSanityCheck ==
    /\ runPc = "sanity"
    /\ LET token == SanityToken(env) IN
       IF token # ""
       THEN /\ stdout' = Append(stdout, token)
            /\ runErrRet' = Nil
            /\ runPc' = "handle"
            /\ rhist' = [rhist EXCEPT !.sane = TRUE]
       ELSE /\ runPc' = "role"
            /\ UNCHANGED <<stdout, runErrRet, rhist>>
    /\ UNCHANGED <<cfg, env, currentProcess, exitCode, programCalls, logged,
                   lvars, mvars>>

\* Mutant: any non-empty marker makes the process the worker.
IsSlave_NonEmpty(e) == e.envIsSlave # ""

\* sys_posix.go:225: the process is the worker when the marker is "1".
IsSlave(e) == e.envIsSlave = "1"

\* sys_posix.go:225-229: currentProcess is set to the slave or the master.
RunSelectRole ==
    /\ runPc = "role"
    /\ currentProcess' = IF IsSlave(env) THEN "slave" ELSE "master"
    /\ runPc' = "run"
    /\ rhist' = [rhist EXCEPT !.roles = Append(@, currentProcess')]
    /\ UNCHANGED <<cfg, env, runErrRet, stdout, exitCode, programCalls,
                   logged, lvars, mvars>>

\* sys_posix.go:230, currentProcess.run() of the master (its code is not in
\* these files): the supervisor binds the listeners and spawns the worker; it
\* returns an error when that fails and nil when it ends. It does not call
\* Program in this process.
MasterRun ==
    /\ runPc = "run"
    /\ currentProcess = "master"
    /\ \E e \in {Nil, ErrRun} :
          /\ runErrRet' = e
          /\ rhist' = [rhist EXCEPT !.errFrom = IF e = Nil THEN @ ELSE "run",
                                    !.ran = Append(@, "master")]
    /\ runPc' = "handle"
    /\ UNCHANGED <<cfg, env, currentProcess, stdout, exitCode, programCalls,
                   logged, lvars, mvars>>

\* currentProcess.run() of the slave fails while it decodes its process
\* descriptor and rebuilds its listeners, before Program is called.
SlaveRunFail ==
    /\ runPc = "run"
    /\ currentProcess = "slave"
    /\ runErrRet' = ErrRun
    /\ rhist' = [rhist EXCEPT !.errFrom = "run", !.ran = Append(@, "slave")]
    /\ runPc' = "handle"
    /\ UNCHANGED <<cfg, env, currentProcess, stdout, exitCode, programCalls,
                   logged, lvars, mvars>>

\* currentProcess.run() of the slave runs Program with the live state and
\* returns nil.
SlaveRunProgram ==
    /\ runPc = "run"
    /\ currentProcess = "slave"
    /\ programCalls' = Append(programCalls, "enabled")
    /\ runErrRet' = Nil
    /\ runPc' = "handle"
    /\ rhist' = [rhist EXCEPT !.ran = Append(@, "slave")]
    /\ UNCHANGED <<cfg, env, currentProcess, stdout, exitCode, logged,
                   lvars, mvars>>

\* Mutant: Required is not looked at.
RunIsFatal_Never(c, err) == FALSE

\* Mutant: only a failure of run() is fatal, a configuration error is not.
RunIsFatal_OnlyRunErrors(c, err) == err = ErrRun /\ c.Required

\* sys_posix.go:168-170: an error with Required set ends in log.Fatalf.
RunIsFatal(c, err) == err # Nil /\ c.Required

\* sys_posix.go:171-172: the fallback is logged unless warnings are off.
RunWarns(c) == c.Debug \/ ~c.NoWarn

\* sys_posix.go:167-177: Run looks at what runErr returned. With no error it
\* exits with status 0. With an error and Required, log.Fatalf logs and exits
\* with status 1. With an error otherwise it calls c.Program(DisabledState) and
\* returns; calling a nil Program panics (exit status 2).
RunHandle ==
    /\ runPc = "handle"
    /\ IF runErrRet = Nil
       THEN /\ exitCode' = 0
            /\ runPc' = "exited"
            /\ UNCHANGED <<programCalls, logged>>
       ELSE IF RunIsFatal(cfg, runErrRet)
       THEN /\ exitCode' = 1
            /\ runPc' = "exited"
            /\ logged' = logged + 1
            /\ UNCHANGED programCalls
       ELSE /\ logged' = IF RunWarns(cfg) THEN logged + 1 ELSE logged
            /\ IF cfg.Program = "nil"
               THEN /\ runPc' = "panicked"
                    /\ exitCode' = 2
                    /\ UNCHANGED programCalls
               ELSE /\ runPc' = "returned"
                    /\ programCalls' = Append(programCalls, "disabled")
                    /\ UNCHANGED exitCode
    /\ UNCHANGED <<cfg, env, runErrRet, currentProcess, stdout, rhist, lvars, mvars>>

NextRun ==
    \/ RunErrStart
    \/ RunValidate
    \/ RunSanityCheck
    \/ RunSelectRole
    \/ MasterRun
    \/ SlaveRunFail
    \/ SlaveRunProgram
    \/ RunHandle

\* One process that calls Run; the listener is not used.
SpecRun == InitRun /\ [][NextRun]_vars

(***************************************************************************)
(* move (sys_posix.go:25-52): install the staged binary src over dst.      *)
(***************************************************************************)
ErrExdev == "invalid cross-device link"
ErrAccess == "permission denied"
ErrNoEnt == "no such file or directory"
ErrExit == "exit status 1"

\* The binaries on disk before the call: dst is the running binary (or is
\* missing), src the staged one (or is missing).
DstFiles == {Absent, "bin1", "bin2"}
SrcFiles == {Absent, "bin2", "bin3"}

\* move(dst, src) is called once, on any pair of files; mhist.xdev tells
\* whether src and dst are on different devices.
InitMove ==
    /\ InitListener
    /\ RunNotStarted
    /\ dstFile \in DstFiles
    /\ srcFile \in SrcFiles
    /\ movePc = "idle"
    /\ moveRet = "none"
    /\ \E x \in BOOLEAN :
          mhist = [dst0 |-> dstFile, src0 |-> srcFile, xdev |-> x,
                   rename |-> "none", mv |-> "none", sync |-> "none"]

\* sys_posix.go:25-26: move is called.
MoveCall ==
    /\ movePc = "idle"
    /\ movePc' = "rename"
    /\ UNCHANGED <<dstFile, srcFile, moveRet, mhist, lvars, rvars>>

\* The errors os.Rename(src, dst) can return for these files (nil: it can
\* succeed). Without a file at src it fails, and across devices it fails;
\* otherwise it succeeds or fails for lack of permission.
RenameResults ==
    IF srcFile = Absent THEN {ErrNoEnt}
    ELSE IF mhist.xdev THEN {ErrExdev}
    ELSE {Nil, ErrAccess}

\* sys_posix.go:27-33: os.Rename(src, dst). rename(2) is atomic: on success
\* dst is the staged file and move returns nil, on failure nothing changed
\* and move goes on to mv, whatever the error was.
MoveRename ==
    /\ movePc = "rename"
    /\ \E e \in RenameResults :
          /\ mhist' = [mhist EXCEPT !.rename = e]
          /\ IF e = Nil
             THEN /\ dstFile' = srcFile
                  /\ srcFile' = Absent
                  /\ moveRet' = Nil
                  /\ movePc' = "done"
             ELSE /\ movePc' = "mv"
                  /\ UNCHANGED <<dstFile, srcFile, moveRet>>
    /\ UNCHANGED <<lvars, rvars>>

\* What the command mv src dst can do: "ok" (dst replaced, src removed, exit
\* status 0), "failed" (nothing changed, non-zero exit status), and across
\* devices, where it copies, "cut" (the copy was cut short after it had
\* started to write dst) and "kept" (dst was written but src could not be
\* removed), both with a non-zero exit status. Without a file at src it
\* fails; on one device it renames as os.Rename did.
MvResults ==
    IF srcFile = Absent THEN {"failed"}
    ELSE IF mhist.xdev THEN {"ok", "failed", "cut", "kept"}
    ELSE {"ok", "failed"}

\* sys_posix.go:37-42: exec.Command("mv", src, dst).CombinedOutput(); an
\* error is returned at once, without a sync.
MoveMv ==
    /\ movePc = "mv"
    /\ \E o \in MvResults :
          /\ mhist' = [mhist EXCEPT !.mv = o]
          /\ dstFile' = CASE o \in {"ok", "kept"} -> srcFile
                          [] o = "cut" -> Partial
                          [] OTHER -> dstFile
          /\ srcFile' = IF o = "ok" THEN Absent ELSE srcFile
          /\ IF o = "ok"
             THEN /\ movePc' = "sync"
                  /\ UNCHANGED moveRet
             ELSE /\ movePc' = "done"
                  /\ moveRet' = ErrExit
    /\ UNCHANGED <<lvars, rvars>>

\* What move returns for the result of the sync command.
MoveSyncReturn(e) == e

\* sys_posix.go:45-51: syncCmd().CombinedOutput(); its error is returned,
\* otherwise nil. sync does not touch dst.
MoveSync ==
    /\ movePc = "sync"
    /\ \E e \in {Nil, ErrExit} :
          /\ mhist' = [mhist EXCEPT !.sync = e]
          /\ moveRet' = MoveSyncReturn(e)
    /\ movePc' = "done"
    /\ UNCHANGED <<dstFile, srcFile, lvars, rvars>>

NextMove ==
    \/ MoveCall
    \/ MoveRename
    \/ MoveMv
    \/ MoveSync

\* One call of move; the listener and Run are not used.
SpecMove == InitMove /\ [][NextMove]_vars

(***************************************************************************)
(* Properties of the graceful listener.                                    *)
(***************************************************************************)
ForcedConns == {c \in Conns : hist.forced[c]}

\* release was called while every open connection had been returned by
\* Accept (no Accept was between AcceptTCP and wg.Add).
ReleasedClean == releases >= 1 /\ hist.cleanRelease

\* The case of C1: release was called with N >= 1 open connections and the
\* owner of every one of them closed it before the timeout fired.
DrainedInTime ==
    /\ releases >= 1
    /\ hist.atRelease # {}
    /\ \A c \in hist.atRelease :
          /\ hist.closedBy[c] = "owner"
          /\ hist.deadline => c \notin hist.atDeadline

\* C1 as stated: if the N connections open at release are all closed by their
\* owners before the timeout fires, the listener's Close can return (the
\* counter is zero), no connection is force-closed and the force-close signal
\* closeByForce is never raised.
C1_AsStated ==
    DrainedInTime =>
        /\ Alive /\ WgWaitReady
        /\ ForcedConns = {}
        /\ ~closeByForce

\* C1, amended: if the N connections open at release are all closed by their
\* owners before the timeout fires, the listener's Close can return (the
\* counter is zero and stays so) and no connection is force-closed by its
\* watcher; closeByForce is raised only when the timer fires before the
\* selector has received the drain-waiter's signal, never after it.
C1_DrainedNoForcedClose ==
    DrainedInTime =>
        /\ Alive /\ wg = 0
        /\ lcPc = "wait" => ENABLED ListenerCloseReturn
        /\ ForcedConns = {}
        /\ closeByForce => timerFired[1] /\ selectPc[1] = "forced"
        /\ selectPc[1] = "drained" => ~closeByForce

C1_Witness ==
    /\ DrainedInTime
    /\ Cardinality(hist.atRelease) = MaxConns
    /\ selectPc[1] = "drained"
    /\ lcPc = "ret"

\* The case of C2: release was called with N open connections, all returned
\* by Accept; at the deadline some of them are still open, and their owners
\* do not close them afterwards.
TimedOut ==
    /\ ReleasedClean
    /\ hist.deadline
    /\ hist.atDeadline # {}
    /\ ~hist.lateClose

ReleasedEmpty == releases >= 1 /\ hist.atRelease = {}

\* C3 as stated: after release with zero open connections the drain-wait
\* and a blocking Close do not block, and no force-close is triggered (the
\* force-close signal is not raised).
C3_AsStated ==
    ReleasedEmpty =>
        /\ Alive /\ WgWaitReady
        /\ ~closeByForce

\* C3, amended: after release with zero open connections the drain-wait and
\* a blocking Close do not block (the counter is and stays zero, no connection
\* is open) and no connection is force-closed; the force-close signal is
\* still raised when the timer fires before the selector has received the
\* drain-waiter's signal, and only then.
C3_EmptyReleaseDoesNotBlock ==
    ReleasedEmpty =>
        /\ Alive /\ wg = 0 /\ OpenConns = {}
        /\ waiterPc[1] = "wait" => ENABLED WaiterWake(1)
        /\ lcPc = "wait" => ENABLED ListenerCloseReturn
        /\ ForcedConns = {}
        /\ closeByForce <=> (timerFired[1] /\ selectPc[1] = "forced")

C3_Witness ==
    /\ ReleasedEmpty
    /\ selectPc[1] = "drained"
    /\ ~timerFired[1]
    /\ lcPc = "ret"

\* C4: once release has been called, every Accept that starts afterwards
\* returns an error, and the open-connection count never increases.
C4_AsStated ==
    [][ /\ (acceptPc # "idle" /\ acceptPc' = "idle" /\ hist.acceptAfterRelease)
            => acceptRet' # "conn"
        /\ releases >= 1 => wg' <= wg ]_vars

\* C5: the listener's Close returns only when the open-connection count is
\* zero, and returns what release captured from l.Listener.Close() (nil when
\* release has not run).
C5_AsStated ==
    [][ (lcPc = "wait" /\ lcPc' = "ret") =>
            /\ wg = 0 /\ wg' = 0
            /\ lcRet' = IF releases >= 1 THEN hist.captured ELSE Nil ]_vars

\* C6: a second or later Close of a connection returns without decrementing
\* the counter and without signalling closed again: wg.Done() runs at most
\* once and closed is signalled at most once per connection, and a later call
\* by the owner never reaches the send.
C6_CloseIsIdempotent ==
    \A c \in Conns :
        /\ hist.dones[c] <= 1
        /\ hist.signals[c] <= 1
        /\ hist.calls[c] = 2 => ownerPc[c] = "idle"
        /\ (hist.closedBy[c] = "force" /\ hist.calls[c] >= 1) => ownerPc[c] = "idle"

C6_Witness ==
    \E c \in Conns :
        /\ hist.calls[c] = 2
        /\ hist.dones[c] = 1
        /\ hist.signals[c] = 1
        /\ \E d \in Conns : hist.closedBy[d] = "force" /\ hist.calls[d] >= 1

\* C12: for every connection and every interleaving of the owner's Close
\* with the force-close trigger, the socket is closed by exactly one of the
\* two, the one whose o.Conn.Close() ran first, and the counter is decremented
\* exactly once for it: by the watcher when the watcher closed it, by the
\* owner when the owner did, and not at all while it is open.
C12_ClosedByExactlyOne ==
    \A c \in Conns :
        /\ connState[c] = "closed" <=> hist.closedBy[c] \in {"owner", "force"}
        /\ hist.dones[c] = IF connState[c] = "closed" THEN 1 ELSE 0
        /\ hist.forced[c] <=> hist.closedBy[c] = "force"
        /\ hist.closedBy[c] = "force" => closeByForce
        /\ hist.closedBy[c] = "owner" => hist.calls[c] >= 1
        /\ (hist.closedBy[c] = "force" /\ hist.calls[c] >= 1) =>
              /\ watcherPc[c] = "send"
              /\ hist.signals[c] = 0

\* Both races happened: the owner of one connection called Close after its
\* watcher had force-closed it, and the watcher of another took the
\* force-close case after its owner had closed it.
C12_Witness ==
    \E c, d \in Conns :
        /\ hist.closedBy[c] = "force" /\ hist.calls[c] >= 1
        /\ hist.closedBy[d] = "owner" /\ closeByForce
        /\ watcherPc[d] = "exit" /\ hist.signals[d] = 0
        /\ hist.dones[c] = 1 /\ hist.dones[d] = 1

\* C13: once release has begun, under fair scheduling the open-connection
\* count eventually reaches zero and a blocking Close() on the listener
\* eventually returns, whether or not any owner closes its connection.
C13_AsStated ==
    /\ (releases >= 1) ~> (wg = 0)
    /\ (releases >= 1 /\ lcPc = "wait") ~> (lcPc = "ret")

\* The same for a release during which no Accept was between AcceptTCP and
\* l.wg.Add(1): then the drain does end.
C13_CleanReleaseDrains ==
    /\ ReleasedClean ~> (wg = 0 /\ OpenConns = {})
    /\ (ReleasedClean /\ lcPc = "wait") ~> (lcPc = "ret")

\* C14: a second call of release is ignored or fails fast: it starts no
\* second timeout selector (and so no second force-close timer), the
\* force-close signal is not raised a second time, and l.closeError keeps
\* what the first call stored.
C14_AsStated ==
    [][ /\ selectPc'[2] = "none" /\ ~timerFired'[2]
        /\ hist'.forceRaised <= 1
        /\ releases = 2 => closeError' = closeError ]_vars

\* C16: when AcceptTCP fails, Accept returns that error and no connection
\* (the error of a closed listener after release, the transport's error
\* before), and leaves the listener as it was: the counter is not
\* incremented, no connection is created and no watcher is started.
C16_FailedAcceptChangesNothing ==
    [][ (acceptPc = "accepting" /\ acceptPc' = "idle") =>
            /\ acceptRet' = IF listenerOpen THEN ErrAccept ELSE ErrNetClosing
            /\ acceptRet' \notin {Nil, "conn", "none"}
            /\ acceptConn' = 0
            /\ wg' = wg
            /\ watcherPc' = watcherPc
            /\ connState' = connState /\ returned' = returned
            /\ listenerOpen' = listenerOpen /\ closeError' = closeError
            /\ closeByForce' = closeByForce ]_vars

\* Accept has failed on the released listener while a connection was counted
\* and its watcher waiting, and another connection could still be created.
C16_Witness ==
    /\ acceptPc = "idle"
    /\ acceptRet = ErrNetClosing
    /\ wg = 1
    /\ \E c \in Conns : watcherPc[c] = "select" /\ returned[c]
    /\ \E c \in Conns : connState[c] = "unused"

\* C17: under every interleaving the counter of l.wg never goes below zero:
\* wg.Done() does not run for a connection before Accept has run l.wg.Add(1)
\* for it (after which Accept returns it).
C17_AsStated ==
    /\ wg >= 0
    /\ \A c \in Conns : hist.dones[c] >= 1 => returned[c]

\* C18: an owner's call of Close on an accepted connection always returns:
\* under fair scheduling a call that has reached o.closed <- true gets past
\* it (unless a panic ends the process), whatever the force-close trigger and
\* the connection's watcher do.
C18_AsStated ==
    \A c \in Conns : (ownerPc[c] = "send") ~> (ownerPc[c] = "idle" \/ ~Alive)

\* C19: every helper goroutine eventually ends (unless a panic ends the
\* process): the watcher of a connection once the connection is closed, by
\* its owner or by force, and the drain-waiter and the timeout selector of a
\* release once its selector has decided the outcome, drained or timed out.
C19_AsStated ==
    /\ \A c \in Conns :
          (connState[c] = "closed") ~> (watcherPc[c] = "exit" \/ ~Alive)
    /\ \A r \in Releases :
          (selectPc[r] \in {"forced", "drained"}) ~>
              (waiterPc[r] = "exit" \/ ~Alive)

\* C20: after release has been called, neither the drain-waiter's
\* l.wg.Wait() nor that of a blocking Close() returns while a connection
\* that Accept has returned, or has accepted and is about to return, is open.
C20_AsStated ==
    [][ (releases >= 1 /\
           \/ \E r \in Releases : waiterPc[r] = "wait" /\ waiterPc'[r] = "send"
           \/ lcPc = "wait" /\ lcPc' = "ret")
        => OpenConns = {} ]_vars

(***************************************************************************)
(* Properties of Run.                                                      *)
(***************************************************************************)
RunFinished == runPc \in {"exited", "returned", "panicked"}

\* C7: started with a sanity-check token in the environment, Run writes
\* exactly that token to standard output and exits with status 0; it never
\* calls Program and never selects a role, whatever the configuration.
C7_AsStated ==
    SanityToken(env) # "" =>
        /\ programCalls = <<>>
        /\ currentProcess = "nil"
        /\ RunFinished =>
              /\ stdout = <<SanityToken(env)>>
              /\ runPc = "exited" /\ exitCode = 0

\* C8: when running the supervisor or worker fails, Run with Required set
\* exits with a non-zero status and has not called Program; without Required
\* it calls Program exactly once, with the disabled state, and returns. When
\* runErr returns no error, Run exits with status 0 and the fallback is not
\* called.
C8_RunFailureHandling ==
    RunFinished =>
        /\ (rhist.errFrom = "run" /\ cfg.Required) =>
              /\ runPc = "exited" /\ exitCode # 0
              /\ programCalls = <<>>
        /\ (rhist.errFrom = "run" /\ ~cfg.Required) =>
              /\ runPc = "returned" /\ exitCode = -1
              /\ programCalls = <<"disabled">>
        /\ runErrRet = Nil =>
              /\ runPc = "exited" /\ exitCode = 0
              /\ \A i \in 1..Len(programCalls) : programCalls[i] # "disabled"

C8_Witness ==
    /\ runPc = "exited" /\ exitCode = 1
    /\ rhist.errFrom = "run" /\ cfg.Required
    /\ currentProcess = "slave"

C8_WitnessFallback ==
    /\ runPc = "returned"
    /\ rhist.errFrom = "run" /\ ~cfg.Required
    /\ programCalls = <<"disabled">>

\* What the caller set.
OnlyAddress(c) == c.Address # "" /\ c.Addresses = <<>>
OnlyAddresses(c) == c.Address = "" /\ c.Addresses # <<>>
NoAddress(c) == c.Address = "" /\ c.Addresses = <<>>

\* The defaults of a validated configuration c, given the caller's c0.
DefaultsFilled(c, c0) ==
    /\ c.RestartSignal = IF c0.RestartSignal = "nil" THEN SIGUSR2 ELSE c0.RestartSignal
    /\ c.TerminateTimeout = IF c0.TerminateTimeout <= 0 THEN 30 ELSE c0.TerminateTimeout
    /\ c.MinFetchInterval = IF c0.MinFetchInterval <= 0 THEN 1 ELSE c0.MinFetchInterval
    /\ c.Required = c0.Required /\ c.Program = c0.Program
    /\ c.Debug = c0.Debug /\ c.NoWarn = c0.NoWarn

\* C9 as stated: every configuration that passes validate has Addresses
\* populated ([Address] when only Address was set, unchanged when only
\* Addresses was set) and the defaults filled.
C9_AsStated ==
    rhist.validateRet = Nil =>
        /\ cfg.Addresses # <<>>
        /\ OnlyAddress(rhist.cfg0) => cfg.Addresses = <<rhist.cfg0.Address>>
        /\ OnlyAddresses(rhist.cfg0) => cfg.Addresses = rhist.cfg0.Addresses
        /\ DefaultsFilled(cfg, rhist.cfg0)

\* C9, amended: for every configuration that passes validate, Addresses is
\* [Address] when the caller set only Address and unchanged when the caller
\* set only Addresses (Address then becomes Addresses[0]); when the caller set
\* neither, validate passes too and both stay empty. The defaults are filled:
\* RestartSignal SIGUSR2 when nil, TerminateTimeout 30s when <= 0,
\* MinFetchInterval 1s when <= 0; other values are unchanged.
C9_ValidateNormalises ==
    rhist.validateRet = Nil =>
        /\ ~(rhist.cfg0.Address # "" /\ rhist.cfg0.Addresses # <<>>)
        /\ OnlyAddress(rhist.cfg0) =>
              /\ cfg.Addresses = <<rhist.cfg0.Address>>
              /\ cfg.Address = rhist.cfg0.Address
        /\ OnlyAddresses(rhist.cfg0) =>
              /\ cfg.Addresses = rhist.cfg0.Addresses
              /\ cfg.Address = rhist.cfg0.Addresses[1]
        /\ NoAddress(rhist.cfg0) => NoAddress(cfg)
        /\ DefaultsFilled(cfg, rhist.cfg0)

C9_Witness ==
    /\ rhist.validateRet = Nil
    /\ OnlyAddress(rhist.cfg0)
    /\ rhist.cfg0.TerminateTimeout < 0 /\ cfg.TerminateTimeout = 30
    /\ rhist.cfg0.MinFetchInterval = 2 /\ cfg.MinFetchInterval = 2
    /\ rhist.cfg0.RestartSignal = "nil" /\ cfg.RestartSignal = SIGUSR2

\* C10 as stated: a configuration error is fatal: after validate fails, Run
\* selects no role, never calls Program, and does not return normally.
C10_AsStated ==
    rhist.errFrom = "validate" =>
        /\ currentProcess = "nil"
        /\ programCalls = <<>>
        /\ runPc # "returned"

\* C10, amended: after validate fails, Run selects no role and starts nothing
\* (nothing is written to standard output). The error is fatal when Required
\* is set (exit status 1, Program not called) and when Program is missing
\* (the fallback call of the nil Program panics); otherwise (both address
\* forms set, Required not set) Run falls back: it calls Program once with the
\* disabled state and returns.
C10_ConfigErrorHandling ==
    rhist.errFrom = "validate" =>
        /\ currentProcess = "nil"
        /\ stdout = <<>>
        /\ runErrRet \in {ErrProgramRequired, ErrBothAddresses}
        /\ cfg = rhist.cfg0
        /\ RunFinished =>
              /\ cfg.Required =>
                    runPc = "exited" /\ exitCode = 1 /\ programCalls = <<>>
              /\ (~cfg.Required /\ cfg.Program = "nil") =>
                    runPc = "panicked" /\ exitCode = 2 /\ programCalls = <<>>
              /\ (~cfg.Required /\ cfg.Program # "nil") =>
                    /\ runPc = "returned" /\ programCalls = <<"disabled">>
                    /\ cfg.Address # "" /\ cfg.Addresses # <<>>

C10_Witness ==
    /\ rhist.errFrom = "validate"
    /\ runErrRet = ErrBothAddresses
    /\ cfg.Required
    /\ runPc = "exited"

\* The role the environment marker stands for.
MarkedRole == IF env.envIsSlave = "1" THEN "slave" ELSE "master"

\* runErr has passed its three checks: the platform is supported, validate
\* returned nil and sanityCheck found no token.
ChecksPassed ==
    /\ supported
    /\ runPc \notin {"start", "validate", "sanity"}
    /\ rhist.validateRet = Nil
    /\ SanityToken(env) = "" /\ ~rhist.sane

\* C15: the role is decided at most once and only from the marker: worker
\* if and only if the marker is "1", supervisor for every other value, unset
\* included; the run() of exactly that role is run, once, and neither a role
\* is chosen nor a run() started unless the platform check, validate and the
\* sanity check have passed; once they have, the role is chosen.
C15_RoleFromMarker ==
    /\ Len(rhist.roles) <= 1 /\ Len(rhist.ran) <= 1
    /\ currentProcess = IF rhist.roles = <<>> THEN "nil" ELSE rhist.roles[1]
    /\ currentProcess # "nil" => (currentProcess = MarkedRole /\ ChecksPassed)
    /\ rhist.ran # <<>> => rhist.ran = <<MarkedRole>> /\ rhist.roles = rhist.ran
    /\ (ChecksPassed /\ runPc # "role") =>
          /\ currentProcess = MarkedRole
          /\ runPc # "run" => rhist.ran = <<MarkedRole>>

\* A marker that is set but is not "1": the supervisor ran.
C15_Witness ==
    /\ env.envIsSlave = "0"
    /\ rhist.ran = <<"master">>
    /\ RunFinished

\* The marker "1": the worker ran.
C15_WitnessWorker ==
    /\ env.envIsSlave = "1"
    /\ rhist.ran = <<"slave">>
    /\ RunFinished

(***************************************************************************)
(* Properties of move.                                                     *)
(***************************************************************************)
\* C11: whenever move(dst, src) returns an error, the file at dst has not
\* been replaced: it is what it was before the call, whatever the rename, the
\* fallback mv and the sync did.
C11_AsStated ==
    (movePc = "done" /\ moveRet # Nil) => dstFile = mhist.dst0

====
